---- MODULE Spec2Model ----
(***************************************************************************)
(* Model of clientv0.py: the NES core (64KB memory, 6502 register file,    *)
(* iNES loader, fetch loop) and its start/stop lifecycle on a background   *)
(* thread.  The foreground caller runs one method at a time; every thread  *)
(* started by NES.start runs NES.emulator_loop, interleaved with the       *)
(* foreground at the granularity of the attribute reads and writes of      *)
(* self.pc and self.running.  load_rom is interleaved with the threads     *)
(* between its two copy loops and before its reset.  The except-branch of  *)
(* emulator_loop is left out: with PC masked to 16 bits the index into the *)
(* 65536-cell list cannot fail.                                            *)
(*                                                                         *)
(* Spec lets the caller make any call at any time; SpecGUI makes the calls *)
(* NesticleGUI's buttons allow; SpecRW calls read_byte and write_byte;     *)
(* SpecFair and SpecLive add fair scheduling of the threads, SpecLive with *)
(* runs of any length.                                                     *)
(***************************************************************************)
EXTENDS Integers, Sequences, FiniteSets, TLC

\* ---------------------------------------------------------------- bounds
\* Number of Thread objects NES.start may create in one behaviour.
MaxThreads == 2
\* Number of calls the foreground caller makes in one behaviour.
MaxCalls == 3
\* Number of fetch_byte calls the engine threads make in one behaviour.
MaxFetches == 4

\* ------------------------------------------------------ program constants
MemSize   == 65536   \* [0] * 0x10000
ByteMask  == 255     \* 0xFF
BankSize  == 16384   \* 16 KB PRG bank
HeaderLen == 16      \* offset = 16
PrgLow    == 32768   \* 0x8000
PrgHigh   == 49152   \* 0xC000
VecLow    == 65532   \* 0xFFFC
VecHigh   == 65533   \* 0xFFFD
SpInit    == 253     \* 0xFD
PInit     == 4       \* 0x04
BRK       == 0       \* opcode 0x00

Addr == 0 .. (MemSize - 1)
Byte == 0 .. ByteMask

\* addr & 0xFFFF with the mask left out
NoMask16(x) == x

\* x & 0xFFFF and x & 0xFF on Python integers (two's complement, unbounded):
\* the non-negative residue.
And16(x) == x % MemSize
And8(x)  == x % (ByteMask + 1)

Min(a, b) == IF a < b THEN a ELSE b

\* ------------------------------------------------------------ byte strings
\* A list or bytes object of small integers (self.memory, the file's data, a
\* bank) is kept as [len, nz]: its length and the map from the indices of its
\* non-zero elements to their values.  Indices are Python's, from 0.
Bytes(n, nz) == [len |-> n, nz |-> nz]

Empty == Bytes(0, <<>>)

\* s[i]
Cell(s, i) == IF i \in DOMAIN s.nz THEN s.nz[i] ELSE 0

\* the bytes object holding the elements of a sequence
FromSeq(q) ==
    LET keys == {i \in 1 .. Len(q) : q[i] # 0}
    IN  Bytes(Len(q), [k \in {i - 1 : i \in keys} |-> q[k + 1]])

\* s + t
Concat(s, t) ==
    LET shifted == {s.len + k : k \in DOMAIN t.nz}
    IN  Bytes(s.len + t.len,
              [k \in DOMAIN s.nz \cup shifted |->
                  IF k \in shifted THEN t.nz[k - s.len] ELSE s.nz[k]])

\* s[lo:hi] for 0 <= lo <= hi: clipped to the length of s, empty when lo is at
\* or past the end.
Slice(s, lo, hi) ==
    LET h    == Min(hi, s.len)
        keys == {k \in DOMAIN s.nz : k >= lo /\ k < h}
    IN  Bytes(IF h > lo THEN h - lo ELSE 0,
              [j \in {k - lo : k \in keys} |-> s.nz[j + lo]])

\* s after s[i] = v
Store(s, i, v) ==
    LET keys == IF v = 0 THEN DOMAIN s.nz \ {i} ELSE DOMAIN s.nz \cup {i}
    IN  Bytes(s.len, [k \in keys |-> IF k = i THEN v ELSE s.nz[k]])

\* --------------------------------------------------------- cartridge files
\* The files offered to load_rom.  A file is [readable, data]; open() raises
\* for an unreadable one.
Magic == FromSeq(<<78, 69, 83, 26>>)     \* b'NES\x1A'

Header(m3, banks) ==
    FromSeq(<<78, 69, 83, m3, banks, 0, 0, 0, 0, 0, 0, 0, 0, 0, 0, 0>>)

\* Bank A: reset vector 0x9000, where one non-zero opcode precedes a 0x00;
\* marker bytes on the first and the last byte of the bank.
BankA ==
    Bytes(BankSize, (0 :> 161) @@ (4096 :> 234) @@ (16381 :> 144) @@ (16383 :> 162))

\* Banks B1, B2: reset vector 0xFFFE, two non-zero opcodes, then PC wraps to 0.
BankB1 ==
    Bytes(BankSize, (0 :> 177) @@ (16380 :> 17) @@ (16381 :> 18) @@ (16383 :> 178))

BankB2 ==
    Bytes(BankSize, (0 :> 193) @@ (16380 :> 254) @@ (16381 :> 255)
                     @@ (16382 :> 234) @@ (16383 :> 194))

File(data) == [readable |-> TRUE, data |-> data]

RomA     == File(Concat(Header(26, 1), BankA))
RomB     == File(Concat(Concat(Header(26, 2), BankB1), BankB2))
RomZero  == File(Header(26, 0))
RomShort == File(Slice(Header(26, 1), 0, 10))
RomMagic == File(Concat(Header(0, 1), BankA))
RomTrunc == File(Concat(Header(26, 2), BankB1))
RomNone  == [readable |-> FALSE, data |-> Empty]

Roms == {RomA, RomB, RomZero, RomShort, RomMagic, RomTrunc, RomNone}

\* ------------------------------------------------------------------- state
VARIABLES
    memory,     \* self.memory
    pc, sp, A, X, Y, P,   \* self.pc, self.sp, self.A, self.X, self.Y, self.P
    running,    \* self.running
    thread,     \* self.thread: 0 for None, else the Thread object's number
    threads,    \* the Thread objects: position in emulator_loop and locals
    fg,         \* foreground caller: "idle" or the call point it is at
    arg,        \* the file given to the latest load_rom call (its `data`)
    ev,         \* the step that produced this state
    last,       \* the foreground call that returned last: [op, val]
    prev,       \* the op of the foreground call that returned before it
    starts,     \* start() calls returned since the last stop() (2: two or more)
    calls,      \* foreground calls made so far
    fetches,    \* fetch_byte calls made so far
    loaded,     \* a load_rom call has returned True
    start_btn,  \* NesticleGUI.start_btn["state"]
    stop_btn,   \* NesticleGUI.stop_btn["state"]
    io          \* the latest write_byte(waddr, value) and read_byte(raddr) calls
                \* and the byte that read returned

cpu  == <<pc, sp, A, X, Y, P>>
regs == <<sp, A, X, Y, P>>
hist == <<last, prev, starts, calls>>
btns == <<start_btn, stop_btn>>
vars == <<memory, pc, sp, A, X, Y, P, running, thread, threads,
          fg, arg, ev, last, prev, starts, calls, fetches,
          loaded, start_btn, stop_btn, io>>

Tid == 1 .. MaxThreads

\* tmp: the value of self.pc read by the statement in progress; idx: the index
\* fetch_byte read memory at; opcode: the byte it returned; halted: this loop
\* has fetched a 0x00.
NoLocals == [tmp |-> 0, idx |-> 0, opcode |-> 0, halted |-> FALSE]
Unborn   == [pos |-> "unborn"] @@ NoLocals

Alive(t)  == threads[t].pos \notin {"unborn", "done"}
AliveSet  == {t \in Tid : Alive(t)}
Created   == {t \in Tid : threads[t].pos # "unborn"}

Init ==
    /\ memory = Bytes(MemSize, <<>>)
    /\ pc = 0
    /\ sp = SpInit
    /\ A = 0 /\ X = 0 /\ Y = 0 /\ P = 0
    /\ running = FALSE
    /\ thread = 0
    /\ threads = [t \in Tid |-> Unborn]
    /\ fg = "idle"
    /\ arg = RomNone
    /\ ev = "init"
    /\ last = [op |-> "none", val |-> TRUE]
    /\ prev = "none"
    /\ starts = 0
    /\ calls = 0
    /\ fetches = 0
    /\ loaded = FALSE
    /\ start_btn = "disabled"
    /\ stop_btn = "disabled"
    /\ io = [waddr |-> 0, value |-> 0, raddr |-> 0, result |-> 0]

\* The foreground caller is between calls and makes another one.
Call ==
    /\ fg = "idle"
    /\ calls < MaxCalls
    /\ calls' = calls + 1

\* The buttons once the callback that made the call `op` has finished: the
\* callbacks of NesticleGUI set them right after the call on the NES returns.
StartBtnAfter(op, val) ==
    CASE op = "load_rom" /\ val -> "normal"
      [] op = "start"           -> "disabled"
      [] op = "stop"            -> "normal"
      [] OTHER                  -> start_btn

StopBtnAfter(op) ==
    CASE op = "start" -> "normal"
      [] op = "stop"  -> "disabled"
      [] OTHER        -> stop_btn

\* A foreground call returns.
Return(op, val) ==
    /\ fg' = "idle"
    /\ ev' = "ret"
    /\ last' = [op |-> op, val |-> val]
    /\ prev' = last.op
    /\ starts' = CASE op = "stop"  -> 0
                   [] op = "start" -> Min(starts + 1, 2)
                   [] OTHER        -> starts
    /\ loaded' = (loaded \/ (op = "load_rom" /\ val))
    /\ start_btn' = StartBtnAfter(op, val)
    /\ stop_btn' = StopBtnAfter(op)

\* A foreground call moves on to its next call point.
Goto(point) ==
    /\ fg' = point
    /\ ev' = "call"
    /\ UNCHANGED <<last, prev, starts, loaded, btns>>

\* ------------------------------------------------------------ NES.read_byte
read_byte(mem, addr) == Cell(mem, And16(addr))

\* ----------------------------------------------------------- NES.write_byte
\* write_byte with `addr &= 0xFFFF` left out
write_byte_nomask(mem, addr, value) == Store(mem, addr, And8(value))

write_byte(mem, addr, value) == Store(mem, And16(addr), And8(value))

\* ------------------------------------- read_byte and write_byte, when called
\* Arguments given to the two calls: addresses on both sides of 0 and 0xFFFF
\* and aliases of the same cell, values on both sides of 0 and 0xFF.
AddrArgs  == {-1, 0, 1, 65535, 65536, 65537}
ValueArgs == {-1, 0, 1, 255, 256, 511}

\* self.memory[i] raises IndexError unless -len <= i < len
Indexable(mem, i) == i >= - mem.len /\ i < mem.len

\* write_byte(a, v); the call returns normally (val TRUE) unless the list
\* subscript raised
WriteByte(a, v) ==
    /\ Call
    /\ memory' = write_byte(memory, a, v)
    /\ io' = [io EXCEPT !.waddr = a, !.value = v]
    /\ Return("write_byte", Indexable(memory, And16(a)))
    /\ UNCHANGED <<cpu, running, thread, threads, arg, fetches>>

\* read_byte(a)
ReadByte(a) ==
    /\ Call
    /\ io' = [io EXCEPT !.raddr = a, !.result = read_byte(memory, a)]
    /\ Return("read_byte", Indexable(memory, And16(a)))
    /\ UNCHANGED <<memory, cpu, running, thread, threads, arg, fetches>>

\* ---------------------------------------------------------------- NES.reset
ResetVector(mem) == read_byte(mem, VecHigh) * 256 + read_byte(mem, VecLow)

reset ==
    /\ A' = 0 /\ X' = 0 /\ Y' = 0
    /\ sp' = SpInit
    /\ P' = PInit
    /\ pc' = ResetVector(memory)

Reset ==
    /\ Call
    /\ reset
    /\ Return("reset", TRUE)
    /\ UNCHANGED <<memory, running, thread, threads, arg, fetches, io>>

\* ------------------------------------------------------------- NES.load_rom
\* prg_banks = data[4]
PrgBanks(data) == Cell(data, 4)

\* The checks of lines 47-63: TRUE when load_rom goes on to copy.
Validate(f) ==
    /\ f.readable
    /\ ~ (f.data.len < HeaderLen \/ Slice(f.data, 0, 4) # Magic)
    /\ ~ (f.data.len < HeaderLen + PrgBanks(f.data) * BankSize)

\* for i in range(len(bank)): self.memory[base + i] = bank[i]
\* cells base .. base + len(bank) - 1 are overwritten, the others kept
CopyBank(mem, base, bank) ==
    LET keep == {k \in DOMAIN mem.nz : k < base \/ k >= base + bank.len}
        new  == {base + j : j \in DOMAIN bank.nz}
    IN  Bytes(mem.len,
              [k \in keep \cup new |->
                  IF k \in new THEN bank.nz[k - base] ELSE mem.nz[k]])

Bank1(data) == Slice(data, HeaderLen, HeaderLen + BankSize)
\* Bank2 taken without the header offset
Bank2NoOffset(data) == Slice(data, BankSize, 2 * BankSize)
Bank2(data) == Slice(data, HeaderLen + BankSize, HeaderLen + 2 * BankSize)

\* LoadLow with the first copy loop placed before the truncation check
LoadLowBeforeCheck(mem, f) ==
    IF f.readable /\ ~ (f.data.len < HeaderLen \/ Slice(f.data, 0, 4) # Magic)
    THEN CopyBank(mem, PrgLow, Bank1(f.data))
    ELSE mem

\* LoadLow with the first copy loop writing from address 0
LoadLowAtZero(mem, f) ==
    IF Validate(f) THEN CopyBank(mem, 0, Bank1(f.data)) ELSE mem

\* memory after the first copy loop, for a file that may or may not validate
LoadLow(mem, f) ==
    IF Validate(f) THEN CopyBank(mem, PrgLow, Bank1(f.data)) ELSE mem

\* LoadHigh without the mirror branch
LoadHighNoMirror(mem, data) == CopyBank(mem, PrgHigh, Bank2(data))

\* memory after the second copy loop (mirror or second bank)
LoadHigh(mem, data) ==
    IF PrgBanks(data) = 1
    THEN CopyBank(mem, PrgHigh, Bank1(data))
    ELSE CopyBank(mem, PrgHigh, Bank2(data))

\* open/read, validation, and the copy of bank1 to 0x8000
LoadRom(f) ==
    /\ Call
    /\ memory' = LoadLow(memory, f)
    /\ IF Validate(f)
       THEN Goto("load_high")
       ELSE Return("load_rom", FALSE)
    /\ arg' = f
    /\ UNCHANGED <<cpu, running, thread, threads, fetches, io>>

\* the copy to 0xC000
LoadRomHigh ==
    /\ fg = "load_high"
    /\ memory' = LoadHigh(memory, arg.data)
    /\ Goto("load_reset")
    /\ UNCHANGED <<cpu, running, thread, threads, arg, calls, fetches, io>>

\* self.reset(); return True
LoadRomReset ==
    /\ fg = "load_reset"
    /\ reset
    /\ Return("load_rom", TRUE)
    /\ UNCHANGED <<memory, running, thread, threads, arg, calls, fetches, io>>

\* ---------------------------------------------------------------- NES.start
\* The new thread begins emulator_loop at its `while self.running`.
Spawn(ths, t) == [ths EXCEPT ![t] = [pos |-> "while"] @@ NoLocals]

\* start without the `if self.running: return` of lines 96-98
StartUnguarded ==
    /\ Call
    /\ Cardinality(Created) < MaxThreads
    /\ running' = TRUE
    /\ thread' = Cardinality(Created) + 1
    /\ threads' = Spawn(threads, Cardinality(Created) + 1)
    /\ Return("start", TRUE)
    /\ UNCHANGED <<memory, cpu, arg, fetches, io>>

Start ==
    /\ Call
    /\ IF running
       THEN UNCHANGED <<running, thread, threads>>
       ELSE /\ Cardinality(Created) < MaxThreads
            /\ running' = TRUE
            /\ thread' = Cardinality(Created) + 1
            /\ threads' = Spawn(threads, Cardinality(Created) + 1)
    /\ Return("start", TRUE)
    /\ UNCHANGED <<memory, cpu, arg, fetches, io>>

\* ----------------------------------------------------------------- NES.stop
\* stop without `self.running = False` (line 107): it only joins
StopNoClear ==
    /\ Call
    /\ IF ~ running
       THEN Return("stop", TRUE)
       ELSE IF thread # 0
            THEN Goto("join")
            ELSE Return("stop", TRUE)
    /\ UNCHANGED <<memory, cpu, running, thread, threads, arg, fetches, io>>

Stop ==
    /\ Call
    /\ IF ~ running
       THEN /\ Return("stop", TRUE)
            /\ UNCHANGED running
       ELSE /\ running' = FALSE
            /\ IF thread # 0
               THEN Goto("join")
               ELSE Return("stop", TRUE)
    /\ UNCHANGED <<memory, cpu, thread, threads, arg, fetches, io>>

\* self.thread.join() returns once that thread has finished
StopJoin ==
    /\ fg = "join"
    /\ threads[thread].pos = "done"
    /\ Return("stop", TRUE)
    /\ UNCHANGED <<memory, cpu, running, thread, threads, arg, calls, fetches, io>>

\* -------------------------------------------------------- NES.emulator_loop
At(t, p) == threads[t].pos = p

\* A step of an engine thread: the foreground caller is left alone.
EngineStep == ev' = "engine" /\ UNCHANGED <<thread, fg, arg, hist, loaded, btns, io>>

\* while self.running:
LoopTest(t) ==
    /\ EngineStep
    /\ At(t, "while")
    /\ IF running
       THEN /\ fetches < MaxFetches
            /\ fetches' = fetches + 1
            /\ threads' = [threads EXCEPT ![t].pos = "and_load"]
       ELSE /\ fetches' = fetches
            /\ threads' = [threads EXCEPT ![t] = [pos |-> "done"] @@ NoLocals]
    /\ UNCHANGED <<memory, cpu, running>>

\* fetch_byte, self.pc &= 0xFFFF: the read of self.pc
FetchAndLoad(t) ==
    /\ EngineStep
    /\ At(t, "and_load")
    /\ threads' = [threads EXCEPT ![t].pos = "and_store", ![t].tmp = pc]
    /\ UNCHANGED <<memory, cpu, running, fetches>>

\* fetch_byte, self.pc &= 0xFFFF: the write of self.pc
FetchAndStore(t) ==
    /\ EngineStep
    /\ At(t, "and_store")
    /\ pc' = And16(threads[t].tmp)
    /\ threads' = [threads EXCEPT ![t].pos = "index", ![t].tmp = 0]
    /\ UNCHANGED <<memory, regs, running, fetches>>

\* FetchIndex that also executes the byte as a load of the accumulator
FetchIndexIntoA(t) ==
    /\ EngineStep
    /\ At(t, "index")
    /\ threads' = [threads EXCEPT ![t].pos = "inc_load", ![t].idx = pc,
                                  ![t].opcode = Cell(memory, pc)]
    /\ A' = Cell(memory, pc)
    /\ UNCHANGED <<memory, pc, sp, X, Y, P, running, fetches>>

\* fetch_byte, byte = self.memory[self.pc]
FetchIndex(t) ==
    /\ EngineStep
    /\ At(t, "index")
    /\ threads' = [threads EXCEPT ![t].pos = "inc_load", ![t].idx = pc,
                                  ![t].opcode = Cell(memory, pc)]
    /\ UNCHANGED <<memory, cpu, running, fetches>>

\* fetch_byte, self.pc = (self.pc + 1) & 0xFFFF: the read of self.pc
FetchIncLoad(t) ==
    /\ EngineStep
    /\ At(t, "inc_load")
    /\ threads' = [threads EXCEPT ![t].pos = "inc_store", ![t].tmp = pc]
    /\ UNCHANGED <<memory, cpu, running, fetches>>

\* fetch_byte, self.pc = (self.pc + 1) & 0xFFFF: the write of self.pc
FetchIncStore(t) ==
    /\ EngineStep
    /\ At(t, "inc_store")
    /\ pc' = And16(threads[t].tmp + 1)
    /\ threads' = [threads EXCEPT ![t].pos = "test", ![t].tmp = 0]
    /\ UNCHANGED <<memory, regs, running, fetches>>

\* if opcode == 0x00: self.running = False; then time.sleep
OpcodeTest(t) ==
    /\ EngineStep
    /\ At(t, "test")
    /\ running' = IF threads[t].opcode = BRK THEN FALSE ELSE running
    /\ threads' = [threads EXCEPT ![t].pos = "while", ![t].idx = 0,
                                  ![t].opcode = 0,
                                  ![t].halted = (threads[t].halted \/ threads[t].opcode = BRK)]
    /\ UNCHANGED <<memory, cpu, fetches>>

Next ==
    \/ \E f \in Roms : LoadRom(f)
    \/ LoadRomHigh
    \/ LoadRomReset
    \/ Reset
    \/ Start
    \/ Stop
    \/ StopJoin
    \/ \E t \in Tid : LoopTest(t)
    \/ \E t \in Tid : FetchAndLoad(t)
    \/ \E t \in Tid : FetchAndStore(t)
    \/ \E t \in Tid : FetchIndex(t)
    \/ \E t \in Tid : FetchIncLoad(t)
    \/ \E t \in Tid : FetchIncStore(t)
    \/ \E t \in Tid : OpcodeTest(t)

Spec == Init /\ [][Next]_vars

\* One step of engine thread t.
Engine(t) ==
    \/ LoopTest(t)
    \/ FetchAndLoad(t)
    \/ FetchAndStore(t)
    \/ FetchIndex(t)
    \/ FetchIncLoad(t)
    \/ FetchIncStore(t)
    \/ OpcodeTest(t)

\* Every started thread keeps being scheduled (the threads are daemon threads
\* of the interpreter, each iteration sleeps and yields), and a join() whose
\* thread has finished returns.  The foreground caller is free to stay idle.
Fairness ==
    /\ \A t \in Tid : WF_vars(Engine(t))
    /\ WF_vars(StopJoin)

SpecFair == Spec /\ Fairness

\* ------------------------------------------------------------- NesticleGUI
\* The callbacks run one at a time on the Tk main loop, and Tk invokes a
\* button's command only while the button is not disabled.  load_btn is
\* created enabled and never disabled.  f is the file at the path the dialog
\* returned; a cancelled dialog makes no call on the NES and changes nothing.
gui_load_rom(f) == LoadRom(f)

start_emulator == start_btn = "normal" /\ Start

stop_emulator == stop_btn = "normal" /\ Stop

NextGUI ==
    \/ \E f \in Roms : gui_load_rom(f)
    \/ LoadRomHigh
    \/ LoadRomReset
    \/ start_emulator
    \/ stop_emulator
    \/ StopJoin
    \/ \E t \in Tid : LoopTest(t)
    \/ \E t \in Tid : FetchAndLoad(t)
    \/ \E t \in Tid : FetchAndStore(t)
    \/ \E t \in Tid : FetchIndex(t)
    \/ \E t \in Tid : FetchIncLoad(t)
    \/ \E t \in Tid : FetchIncStore(t)
    \/ \E t \in Tid : OpcodeTest(t)

SpecGUI == Init /\ [][NextGUI]_vars

\* ------------------------------------------------- runs of unbounded length
\* `while self.running`, with the fetch_byte calls left uncounted, so that a
\* loop may go round for ever.
LoopTestLive(t) ==
    /\ EngineStep
    /\ At(t, "while")
    /\ threads' = IF running
                  THEN [threads EXCEPT ![t].pos = "and_load"]
                  ELSE [threads EXCEPT ![t] = [pos |-> "done"] @@ NoLocals]
    /\ UNCHANGED <<memory, cpu, running, fetches>>

EngineLive(t) ==
    \/ LoopTestLive(t)
    \/ FetchAndLoad(t)
    \/ FetchAndStore(t)
    \/ FetchIndex(t)
    \/ FetchIncLoad(t)
    \/ FetchIncStore(t)
    \/ OpcodeTest(t)

NextLive ==
    \/ \E f \in Roms : LoadRom(f)
    \/ LoadRomHigh
    \/ LoadRomReset
    \/ Reset
    \/ Start
    \/ Stop
    \/ StopJoin
    \/ \E t \in Tid : LoopTestLive(t)
    \/ \E t \in Tid : FetchAndLoad(t)
    \/ \E t \in Tid : FetchAndStore(t)
    \/ \E t \in Tid : FetchIndex(t)
    \/ \E t \in Tid : FetchIncLoad(t)
    \/ \E t \in Tid : FetchIncStore(t)
    \/ \E t \in Tid : OpcodeTest(t)

\* Fair scheduling of the engine threads and of the return of join.
SpecLive ==
    /\ Init /\ [][NextLive]_vars
    /\ \A t \in Tid : WF_vars(EngineLive(t))
    /\ WF_vars(StopJoin)

\* The memory interface alone: read_byte and write_byte calls on a new NES.
NextRW ==
    \/ \E a \in AddrArgs, v \in ValueArgs : WriteByte(a, v)
    \/ \E a \in AddrArgs : ReadByte(a)

SpecRW == Init /\ [][NextRW]_vars

\* ================================================================== claims
\* The foreground call `op` has just returned: this state is its return.
Returned(op) == ev = "ret" /\ last.op = op

\* positions between the `while self.running` test and the end of fetch_byte
MidFetch == {"and_load", "and_store", "index", "inc_load", "inc_store"}

\* C1: at most one emulator_loop invocation is active at any time, also when
\* start() is issued after the engine cleared `running` on fetching 0x00.
C1_AtMostOneLoop == Cardinality(AliveSet) <= 1

\* C2: when stop() returns and the call before it was start(), running is
\* False and no emulator_loop thread is alive.
C2_StartStopStopped ==
    (Returned("stop") /\ prev = "start") => (~ running /\ AliveSet = {})

\* C3: from the return of stop() until the next foreground call, no thread is
\* between its `while self.running` test and the end of the fetch_byte that
\* follows it (none is mid-fetch at the return, none fetches after it).
C3_NoFetchAfterStop ==
    (last.op = "stop" /\ fg = "idle") =>
        \A t \in Tid : threads[t].pos \notin MidFetch

\* C4: when a start() returns that is the second (or later) start() since the
\* last stop(), exactly one emulator_loop task is alive.
C4_SecondStartOneTask ==
    (Returned("start") /\ starts >= 2) => Cardinality(AliveSet) = 1

\* C5: a loop that has fetched 0x00 makes no further fetch: it is at its
\* `while self.running` test, which it leaves only by exiting, and it leaves
\* PC alone.
C5_HaltEndsRun ==
    \A t \in Tid : threads[t].halted => threads[t].pos = "while"

\* C6: a load_rom that returns False leaves every memory byte and every CPU
\* register as it was before the call, and each of the four kinds of bad file
\* (unreadable, shorter than 16 bytes, wrong magic, truncated) returns False.
BadFiles == {RomNone, RomShort, RomMagic, RomTrunc}

C6_FailedLoadNoEffect ==
    [][(calls' = calls + 1 /\ last'.op = "load_rom" /\ ev' = "ret") =>
          /\ arg' \in BadFiles <=> ~ last'.val
          /\ ~ last'.val => (memory' = memory /\ cpu' = cpu)]_vars

\* a bad file has been refused after an earlier load that had filled memory
C6_Witness ==
    /\ Returned("load_rom") /\ ~ last.val
    /\ arg = RomTrunc
    /\ Cell(memory, PrgLow) # 0

\* C7: when load_rom returns True for a file with bank count 1, cells
\* 0x8000..0xBFFF and cells 0xC000..0xFFFF both equal file bytes 16..16399.
C7_SingleBankMirrored ==
    (Returned("load_rom") /\ last.val /\ Cell(arg.data, 4) = 1) =>
        /\ Slice(memory, 32768, 49152) = Slice(arg.data, 16, 16400)
        /\ Slice(memory, 49152, 65536) = Slice(arg.data, 16, 16400)

\* the single-bank file has been loaded by the call after another load_rom
C7_Witness ==
    /\ Returned("load_rom") /\ last.val /\ arg = RomA
    /\ prev = "load_rom" /\ calls = 2
    /\ Cell(memory, PrgHigh) = Cell(BankA, 0)
    /\ Cell(memory, PrgHigh + 16382) = 0

\* C8: when load_rom returns True for a file with bank count 2, cells
\* 0x8000..0xBFFF equal file bytes 16..16399 and cells 0xC000..0xFFFF equal
\* file bytes 16400..32783.
C8_TwoBanksPlaced ==
    (Returned("load_rom") /\ last.val /\ Cell(arg.data, 4) = 2) =>
        /\ Slice(memory, 32768, 49152) = Slice(arg.data, 16, 16400)
        /\ Slice(memory, 49152, 65536) = Slice(arg.data, 16400, 32784)

\* the two-bank file has been loaded by the call after another load_rom
C8_Witness ==
    /\ Returned("load_rom") /\ last.val /\ arg = RomB
    /\ prev = "load_rom" /\ calls = 2
    /\ Cell(memory, PrgLow) = Cell(BankB1, 0)
    /\ Cell(memory, PrgHigh) = Cell(BankB2, 0)

\* The reset vector as the file holds it: the last-but-three and last-but-two
\* bytes of the bank shown at 0xC000.
FileVecLow(data) ==
    HeaderLen + (IF Cell(data, 4) = 1 THEN 0 ELSE BankSize) + (VecLow - PrgHigh)

\* C9: when load_rom returns True with the engine stopped, A = X = Y = 0,
\* SP = 0xFD, P = 0x04 and PC is the reset vector held by the file just
\* loaded (and so by memory).
C9_ResetFromLoadedImage ==
    (Returned("load_rom") /\ last.val /\ ~ running /\ AliveSet = {}) =>
        /\ A = 0 /\ X = 0 /\ Y = 0 /\ sp = 253 /\ P = 4
        /\ pc = Cell(memory, 65533) * 256 + Cell(memory, 65532)
        /\ FileVecLow(arg.data) + 1 < arg.data.len
        /\ pc = Cell(arg.data, FileVecLow(arg.data) + 1) * 256
                  + Cell(arg.data, FileVecLow(arg.data))

\* C10: a fetch_byte reads and advances one and the same PC: between its
\* reads and writes of self.pc no other write of self.pc takes effect, so the
\* byte it returns is memory[p] and the PC it leaves is p + 1.
C10_FetchAtomic ==
    \A t \in Tid :
        /\ threads[t].pos = "and_store" => pc = threads[t].tmp
        /\ threads[t].pos = "inc_load"  => pc = threads[t].idx
        /\ threads[t].pos = "inc_store" =>
               pc = threads[t].tmp /\ threads[t].tmp = threads[t].idx

\* C11: start() called when no load_rom has yet returned True leaves
\* running False and launches no task, whatever calls were made before.
C11_StartNeedsCartridge ==
    (Returned("start") /\ ~ loaded) => (~ running /\ thread = 0 /\ Created = {})

\* C12: in every reachable state PC is in 0..65535, A, X, Y, P and SP are in
\* 0..255 and every memory cell is in 0..255; a fetch at PC = 0xFFFF and a
\* fetch racing a reset are among the states.
C12_RangesHold ==
    /\ pc \in Addr
    /\ {A, X, Y, P, sp} \subseteq Byte
    /\ memory.len = MemSize
    /\ \A a \in DOMAIN memory.nz : a \in Addr /\ memory.nz[a] \in Byte

\* a fetch at 0xFFFF has wrapped PC to 0, in a loop that was reset under way
C12_Witness ==
    \E t \in Tid :
        /\ threads[t].pos = "test"
        /\ threads[t].idx = 65535
        /\ pc = 0
        /\ Cell(memory, 65535) # 0
        /\ last.op = "reset"

\* C13: for every integer address a and value v, write_byte(a, v) followed
\* by read_byte(a) returns v & 0xFF, read_byte(a) returns what
\* read_byte(a mod 65536) returns, and neither call raises.
C13_WriteReadWraps ==
    /\ Returned("write_byte") =>
           /\ last.val
           /\ read_byte(memory, io.waddr) = io.value % 256
           /\ read_byte(memory, io.waddr % 65536) = io.value % 256
    /\ Returned("read_byte") =>
           /\ last.val
           /\ io.result = read_byte(memory, io.raddr % 65536)
           /\ io.result \in 0 .. 255
    /\ (Returned("read_byte") /\ prev = "write_byte"
            /\ io.raddr % 65536 = io.waddr % 65536) => io.result = io.value % 256

C13_Witness ==
    /\ Returned("read_byte") /\ prev = "write_byte"
    /\ io.waddr = 65537 /\ io.value = 511
    /\ io.raddr = 1 /\ io.result = 255
    /\ Cell(memory, 65535) = 1

\* the step is a call of start() / of stop()
StartCalled == calls' = calls + 1 /\ ev' = "ret" /\ last'.op = "start"
StopCalled  ==
    calls' = calls + 1 /\ ((ev' = "ret" /\ last'.op = "stop") \/ fg' = "join")

\* C14: start() called while running is True, and stop() called while
\* running is False, leave running, the thread handle, memory and the
\* registers as they were, and neither launch nor join a task.
C14_SelfTransitionsIdle ==
    [][/\ (StartCalled /\ running) =>
              UNCHANGED <<running, thread, threads, memory, cpu>>
       /\ (StopCalled /\ ~ running) =>
              /\ UNCHANGED <<running, thread, threads, memory, cpu>>
              /\ fg' = "idle"]_vars

\* a second start() has returned with the first loop still the only one
C14_Witness ==
    /\ Returned("start") /\ prev = "start" /\ starts = 2
    /\ running /\ thread = 1 /\ Created = {1}

\* C15: once stop() has cleared the flag and waits in join(), no loop begins
\* another fetch_byte (the joined thread finishes at most the one it is in),
\* and under fair scheduling stop() returns.
C15_StopReturns ==
    /\ [][fg = "join" => fetches' = fetches]_vars
    /\ (fg = "join") ~> (fg = "idle" /\ last.op = "stop")

\* stop() waits for a thread that is inside fetch_byte
C15_Witness ==
    /\ fg = "join" /\ ~ running
    /\ threads[thread].pos \in MidFetch
    /\ loaded

\* NES.load_rom has just begun: the state its first step leaves
LoadBegun ==
    \/ ev = "call" /\ fg = "load_high"
    \/ Returned("load_rom") /\ ~ last.val

\* C16: driven through the GUI, NES.load_rom (and the reset inside it) begins
\* only with running False and no emulator_loop thread alive.
C16_LoadOnlyWhenStopped ==
    LoadBegun => (~ running /\ AliveSet = {})

\* the step is one of a live engine thread
EngineMoved ==
    \E t \in Tid : Alive(t) /\ threads'[t] # threads[t]

\* C17: every step of emulator_loop leaves every memory byte and A, X, Y, P
\* and SP unchanged; of the machine state it changes only PC and running.
C17_EngineOnlyReads ==
    [][EngineMoved => UNCHANGED <<memory, sp, A, X, Y, P, thread>>]_vars

\* a loop has fetched a non-zero byte of a loaded cartridge
C17_Witness ==
    /\ ev = "engine"
    /\ \E t \in Tid : threads[t].pos = "test" /\ threads[t].opcode # 0
    /\ P = 4 /\ sp = 253
    /\ Cell(memory, PrgLow) # 0

\* C18: whenever load_rom returns True, whatever the header's bank count, the
\* window 0x8000..0xFFFF is fixed by the file alone: the low half holds file
\* bytes 16..16399, the high half the same bank or file bytes 16400..32783,
\* so nothing of an earlier cartridge is left and a full bank was placed.
C18_WindowFromFileAlone ==
    (Returned("load_rom") /\ last.val) =>
        /\ arg.data.len >= 16 + 16384
        /\ Slice(memory, 32768, 49152) = Slice(arg.data, 16, 16400)
        /\ \/ Slice(memory, 49152, 65536) = Slice(arg.data, 16, 16400)
           \/ /\ arg.data.len >= 16 + 2 * 16384
              /\ Slice(memory, 49152, 65536) = Slice(arg.data, 16400, 32784)

\* C19: in every reachable state every memory cell below 0x8000 is 0: no
\* load_rom, reset, start, stop or engine step writes there.
C19_LowHalfZero ==
    /\ \A a \in DOMAIN memory.nz : a >= 32768
    /\ Slice(memory, 0, 32768) = Bytes(32768, <<>>)

\* both halves of the window are loaded and a loop has run on into the zeros
C19_Witness ==
    /\ Cell(memory, 32768) # 0 /\ Cell(memory, 65535) # 0
    /\ \E t \in Tid : threads[t].pos = "test" /\ threads[t].idx < 32768
                      /\ threads[t].opcode = 0
    /\ loaded

\* C20: after start() has returned, unless another call is made, under fair
\* scheduling running becomes False and every loop exits, whatever image and
\* reset vector were loaded.
C20_EngineHaltsByItself ==
    \A c \in 1 .. MaxCalls :
        (Returned("start") /\ calls = c)
            ~> (calls # c \/ (~ running /\ AliveSet = {}))

====
